---- MODULE Spec2Model ----
(***************************************************************************)
(* PlantTimer: the schedule engine and the serial commands of              *)
(* src/PlantTimer.ino, and setBloomStart as the earlier sketches of         *)
(* src/unnamed have it.                                                    *)
(*                                                                         *)
(* Time is the Unix time of the Time library, in seconds.  time_t and      *)
(* unsigned long are 32-bit unsigned words, long is a 32-bit signed word.  *)
(* A 32-bit word is written here as its two's complement (signed)          *)
(* representative, so that sums and differences of words are the plain     *)
(* integer sums and differences as long as they stay inside                *)
(* -2^31 .. 2^31-1 (every value of the model does), a conversion between   *)
(* long and unsigned long is the identity on representatives, and only     *)
(* the unsigned comparison needs care (ULess).                             *)
(***************************************************************************)
EXTENDS Integers, Sequences, FiniteSets, TLC

VARIABLES
  pc,                               \* "boot" before setup() has run, "run" after
  now,                              \* the clock, now()
  cfg,                              \* the configuration compiled into the sketch
  bloomStart,                       \* storedSettings.bloomStart
  currentGrowthLightPeriod,
  secondsToNextGrowthLightSwitch,
  bloomLightStatus,                 \* index into bloomLightScheme: 0 = ON period, 1 = OFF period
  bloomDayCounter,
  secondsToNextBloomLightSwitch,
  secondsToNextSleepLightSwitch,
  light1, light2, light3, pump,     \* relay outputs, TRUE = RELAYON
  alarms,                           \* the alarm slots of the timer service
  growthCallAt,                     \* history: now() of the last getGrowthLightPeriod, -1 if none
  growthWalk,                       \* history: passes and highest index read of its loop
  bloomCallAt,                      \* history: now() of the last getBloomLightStatus, -1 if none
  sleepCallAt,                      \* history: now() of the last getSleepLightStatus, -1 if none
  sleepRet,                         \* history: what the last getSleepLightStatus returned
  sleepIn,                          \* history: the bloom values the last getSleepLightStatus read
  bootTime,                         \* history: now() at setup
  bloomOnTime,                      \* history: every bloom handler so far fired at its trigger
  lastFired,                        \* history: the handler that ran last, and how late
  stalls,                           \* number of stalls of the control loop so far
  eeprom,                           \* the bloomStart held by the EEPROM
  serialInputString,                \* the characters received and not yet processed
  serialStringComplete,
  serialOut,                        \* history: what the last command printed
  lastCmd,                          \* history: text, header, number and time of the last command
  cmds,                             \* number of commands processed so far
  sketch,                           \* the file whose setBloomStart is called
  timeStatus,                       \* timeStatus() of the Time library
  fanThrottleActive,
  throttle,                         \* relay output of the exhaust fan throttle, TRUE = RELAYON
  lastPoll,                         \* history: the readings of the last thermostat poll
  clockAtBoot                       \* history: timeStatus() as setup saw it

vars == << pc, now, cfg, bloomStart, currentGrowthLightPeriod,
           secondsToNextGrowthLightSwitch, bloomLightStatus, bloomDayCounter,
           secondsToNextBloomLightSwitch, secondsToNextSleepLightSwitch,
           light1, light2, light3, pump, alarms, growthCallAt, growthWalk, bloomCallAt,
           sleepCallAt, sleepRet, sleepIn, bootTime, bloomOnTime, lastFired, stalls,
           eeprom, serialInputString, serialStringComplete, serialOut, lastCmd,
           cmds, sketch, timeStatus, fanThrottleActive, throttle, lastPoll,
           clockAtBoot >>

\* the exhaust fan thermostat and its history
fanVars == << fanThrottleActive, throttle, lastPoll >>

\* the serial port, the EEPROM and their history
serialVars == << eeprom, serialInputString, serialStringComplete, serialOut, lastCmd,
                 cmds, sketch >>

(***************************************************************************)
(* Constants of the Time library and of the sketch.                        *)
(***************************************************************************)
SECS_PER_MIN == 60
SECS_PER_DAY == 86400
growthLightStartTimeHour == 16
growthLightStartTimeMinute == 20
ByteRange == 256
dtNBR_ALARMS == 6

(***************************************************************************)
(* Bounds of the model.                                                    *)
(***************************************************************************)
Horizon == 100000      \* seconds of run followed after a boot
MaxStalls == 1         \* stalls of the control loop in one run
MaxBloomIterations == 131072  \* passes of the loop of getBloomLightStatus in one call
MaxCmds == 1           \* commands processed in one run
CmdWindow == 1         \* seconds after the boot in which serial input arrives
AfterCmd == 7000       \* seconds of run followed after a command

\* Jan 1 2016 00:00:00 UTC, the smallest timestamp the serial commands accept
MIN_TIME == 1451606400

\* the number of elapsed days from which a bloom start is dropped
MAX_BLOOM_DAYS == 120

\* the number of values of an int of the AVR (16 bits)
IntRange == 65536

\* Jan 2 2016 06:00:00 UTC, the bloom start used by the configurations
S0 == MIN_TIME + SECS_PER_DAY + 6 * 3600

Min(S) == CHOOSE x \in S : \A y \in S : x <= y

(***************************************************************************)
(* Configurations: the values of lines 84-119 and variations of them.      *)
(***************************************************************************)
DefaultCfg ==
  [ growthLightScheme |-> << 720, 330, 60, 330 >>,
    bloomLightScheme |-> << 780, 690 >>,
    reductionOfDaytimeInMinutes |-> 3,
    prolongNighttimeInMinutes |-> 0,
    startOfDaytimeReduction |-> 10,
    sleepLightScheme |-> << 10, 15 >>,
    irrigationScheme |-> << 14400, 28800 >>,
    bloomStart |-> S0 ]

NoDriftCfg == [ DefaultCfg EXCEPT !.reductionOfDaytimeInMinutes = 0 ]

DriftCfg ==
  [ DefaultCfg EXCEPT !.growthLightScheme = << 1080, 360 >>,
                      !.bloomLightScheme = << 720, 720 >>,
                      !.reductionOfDaytimeInMinutes = 5,
                      !.prolongNighttimeInMinutes = 2,
                      !.startOfDaytimeReduction = 1 ]

NoBloomCfg ==
  [ DefaultCfg EXCEPT !.growthLightScheme = << 1, 1437, 1, 1 >>,
                      !.irrigationScheme = << 40, 500 >>,
                      !.bloomStart = 0 ]

Configs == { DefaultCfg, NoDriftCfg, DriftCfg, NoBloomCfg }

\* boot times, as offsets from S0 (S0 is 06:00:00 of its day)
BloomOffsets ==
  { -3600, 0, 1, 46199, 46200, 46201, 46799, 46800, 46801, 47699, 47700, 47701,
    87600, 88199, 88200, 88201, 135000, 176400, 264605,
    970300, 1105100, 1764007, 8643600, 10371600 }

DayOffsets ==
  { 37199, 37200, 37201, 64799, 64800, 80340, 80399, 80400, 80401,
    100200, 103800, 123600 }

BootOffsets(c) ==
  IF c.bloomStart = 0 THEN { 1, 37200, 80400 } ELSE BloomOffsets \cup DayOffsets

DriftOff(c) == c.reductionOfDaytimeInMinutes = 0 /\ c.prolongNighttimeInMinutes = 0

(***************************************************************************)
(* 32-bit words.                                                           *)
(***************************************************************************)
\* x < y for two unsigned 32-bit words given by their signed representatives
ULess(x, y) == IF (x >= 0) = (y >= 0) THEN x < y ELSE y < 0

\* the abs macro of Arduino.h, ((x)>0?(x):-(x)), applied to an unsigned word:
\* x > 0 is the unsigned comparison, and -0 is 0
UAbs(x) == IF x # 0 THEN x ELSE 0

\* byte increment
ByteInc(b) == (b + 1) % ByteRange

(***************************************************************************)
(* getGrowthLightPeriod, lines 303-329.                                    *)
(***************************************************************************)
\* breakTime / set Hour, Minute, Second / makeTime: today's start of the scheme
dailyGrowthLightStartTime(timeNow) ==
  (timeNow - (timeNow % SECS_PER_DAY))
    + growthLightStartTimeHour * 3600 + growthLightStartTimeMinute * SECS_PER_MIN

\* mutant: the day is not subtracted
GrowthAnchorToday(timeNow) == dailyGrowthLightStartTime(timeNow)

\* mutant: the walk starts two days back
GrowthAnchorTwoDays(timeNow) == dailyGrowthLightStartTime(timeNow) - 2 * SECS_PER_DAY

\* the initial value of sumOfGrowthLightPeriods (line 315)
GrowthAnchor(timeNow) == dailyGrowthLightStartTime(timeNow) - SECS_PER_DAY

\* mutant: the index wraps one period early
NextCountWrapEarly(count, periods) == IF count < periods - 2 THEN count + 1 ELSE 0

\* lines 323-324
NextCount(count, periods) == IF count < periods - 1 THEN count + 1 ELSE 0

\* the loop condition of lines 319 and 321
GrowthNotPast(sum, timeNow) == sum <= timeNow

\* growthLightScheme[count]: past the last element the read is outside the
\* array and gives whatever the memory behind it holds (oob)
SchemeAt(scheme, count, oob) == IF count < Len(scheme) THEN scheme[count + 1] ELSE oob

\* the while loop of lines 319-326 with the index wrapping to 0 instead of
\* reaching wrap: the sum and the index at its end, the passes made and the
\* highest index read (-1 if none)
RECURSIVE GrowthLoopOf(_, _, _, _, _, _)
GrowthLoopOf(scheme, wrap, oob, sum, count, timeNow) ==
  IF GrowthNotPast(sum, timeNow)
  THEN LET next == sum + SchemeAt(scheme, count, oob) * SECS_PER_MIN
           r == IF GrowthNotPast(next, timeNow)
                THEN GrowthLoopOf(scheme, wrap, oob, next, NextCount(count, wrap), timeNow)
                ELSE GrowthLoopOf(scheme, wrap, oob, next, count, timeNow)
       IN  [ r EXCEPT !.passes = @ + 1, !.top = IF count > @ THEN count ELSE @ ]
  ELSE [ sum |-> sum, count |-> count, passes |-> 0, top |-> -1 ]

\* the loop as PlantTimer.ino has it: count < GROWTH_LIGHT_PERIODS-1
GrowthLoop(scheme, sum, count, timeNow) ==
  GrowthLoopOf(scheme, Len(scheme), 0, sum, count, timeNow)

\* mutant: the delay is the whole length of the period found, not what is left of it
getGrowthLightPeriodWholePeriod(c, timeNow) ==
  LET r == GrowthLoop(c.growthLightScheme, GrowthAnchor(timeNow), 0, timeNow)
  IN  [ period |-> r.count,
        secs |-> c.growthLightScheme[NextCount(r.count + Len(c.growthLightScheme) - 1,
                                               Len(c.growthLightScheme)) + 1] * SECS_PER_MIN,
        walk |-> [ passes |-> r.passes, top |-> r.top ] ]

getGrowthLightPeriod(c, timeNow) ==
  LET r == GrowthLoop(c.growthLightScheme, GrowthAnchor(timeNow), 0, timeNow)
  IN  [ period |-> r.count, secs |-> r.sum - timeNow,
        walk |-> [ passes |-> r.passes, top |-> r.top ] ]

\* getGrowthLightPeriod of part_002 and of both sketches of part_003:
\* count < GROWTH_LIGHT_PERIODS
getGrowthLightPeriodLate(c, timeNow, oob) ==
  LET r == GrowthLoopOf(c.growthLightScheme, Len(c.growthLightScheme) + 1, oob,
                        GrowthAnchor(timeNow), 0, timeNow)
  IN  [ period |-> r.count, secs |-> r.sum - timeNow,
        walk |-> [ passes |-> r.passes, top |-> r.top ] ]

\* getGrowthLightPeriod as each file has it
getGrowthLightPeriodOf(file, c, timeNow, oob) ==
  IF file = "PlantTimer.ino"
  THEN getGrowthLightPeriod(c, timeNow)
  ELSE getGrowthLightPeriodLate(c, timeNow, oob)

(***************************************************************************)
(* getBloomLightStatus, lines 334-358.  bloomLightStatus and               *)
(* bloomDayCounter are globals: the walk starts from the values they hold. *)
(***************************************************************************)
\* mutant: < for <=
BloomStrictlyBefore(sum, timeNow) == sum < timeNow

\* mutant: the period that holds timeNow is counted too (no test at line 340)
BloomStepCountsPeriod(c, st, timeNow) ==
  LET next == st.sum + c.bloomLightScheme[st.status + 1] * SECS_PER_MIN
  IN  IF st.status = 0
      THEN [ sum |-> next, status |-> 1, counter |-> st.counter ]
      ELSE [ sum |-> next, status |-> 0, counter |-> ByteInc(st.counter) ]

\* the loop condition of lines 338 and 340
BloomNotPast(sum, timeNow) == sum <= timeNow

\* one pass of the body of the while loop, lines 339-354
BloomStep(c, st, timeNow) ==
  LET next == st.sum + c.bloomLightScheme[st.status + 1] * SECS_PER_MIN
      drift == st.counter >= c.startOfDaytimeReduction
  IN  IF BloomNotPast(next, timeNow)
      THEN IF st.status = 0
           THEN [ sum |-> IF drift THEN next - c.reductionOfDaytimeInMinutes * SECS_PER_MIN
                                   ELSE next,
                  status |-> 1, counter |-> st.counter ]
           ELSE [ sum |-> IF drift THEN next + c.prolongNighttimeInMinutes * SECS_PER_MIN
                                   ELSE next,
                  status |-> 0, counter |-> ByteInc(st.counter) ]
      ELSE [ sum |-> next, status |-> st.status, counter |-> st.counter ]

\* the while loop of line 338, for at most n passes: the passes are made in two
\* halves, so that a walk of many thousands of periods nests only a few calls
RECURSIVE BloomRun(_, _, _, _)
BloomRun(c, st, n, timeNow) ==
  IF n = 0 \/ ~BloomNotPast(st.sum, timeNow)
  THEN st
  ELSE IF n = 1
  THEN BloomStep(c, st, timeNow)
  ELSE BloomRun(c, BloomRun(c, st, n \div 2, timeNow), n - (n \div 2), timeNow)

BloomLoop(c, sum, status, counter, timeNow) ==
  BloomRun(c, [ sum |-> sum, status |-> status, counter |-> counter ],
           MaxBloomIterations, timeNow)

getBloomLightStatus(c, start, status, counter, timeNow) ==
  LET r == BloomLoop(c, start, status, counter, timeNow)
  IN  [ status |-> r.status, counter |-> r.counter, secs |-> r.sum - timeNow ]

(***************************************************************************)
(* getSleepLightStatus, lines 360-383.                                     *)
(***************************************************************************)
secondsSinceLastBloomLightSwitch(c, secsBloom, status) ==
  UAbs(secsBloom - c.bloomLightScheme[status + 1] * SECS_PER_MIN)

\* line 366
SleepBeforeOff(c, secsBloom) ==
  ULess(c.sleepLightScheme[1] * SECS_PER_MIN, secsBloom)

\* line 372
SleepAfterOff(c, secsBloom, status) ==
  ULess(c.sleepLightScheme[2] * SECS_PER_MIN,
        secondsSinceLastBloomLightSwitch(c, secsBloom, status))

getSleepLightStatus(c, secsBloom, status) ==
  IF SleepBeforeOff(c, secsBloom)
  THEN [ ret |-> TRUE, branch |-> 1,
         secs |-> secsBloom + c.sleepLightScheme[2] * SECS_PER_MIN ]
  ELSE IF SleepAfterOff(c, secsBloom, status)
  THEN [ ret |-> TRUE, branch |-> 2,
         secs |-> secondsSinceLastBloomLightSwitch(c, secsBloom, status)
                    + c.sleepLightScheme[2] * SECS_PER_MIN ]
  ELSE [ ret |-> FALSE, branch |-> 3,
         secs |-> secsBloom - c.sleepLightScheme[1] * SECS_PER_MIN ]

(***************************************************************************)
(* The timer service (TimeAlarms): dtNBR_ALARMS slots; timerOnce takes the *)
(* first free slot and sets its trigger to now() + value, a 32-bit sum; a  *)
(* slot fires once now() >= its trigger and is freed before its handler    *)
(* runs.  A value of 0 arms nothing.                                       *)
(***************************************************************************)
\* armedAt is history: now() when the slot was armed
FreeAlarm == [ h |-> "free", trigger |-> 0, armedAt |-> 0 ]

OneShotHandlers ==
  { "turnOnGrowthLight", "turnOffGrowthLight", "turnOnBloomLight", "turnOffBloomLight",
    "turnOnSleepLight", "turnOffSleepLight", "turnOnIrrigation", "turnOffIrrigation" }

SleepHandlers == { "turnOnSleepLight", "turnOffSleepLight" }
BloomHandlers == { "turnOnBloomLight", "turnOffBloomLight" }
GrowthHandlers == { "turnOnGrowthLight", "turnOffGrowthLight" }

FirstFree(al) ==
  IF \E i \in 1..Len(al) : al[i].h = "free"
  THEN Min({ i \in 1..Len(al) : al[i].h = "free" })
  ELSE 0

timerOnce(al, timeNow, value, handler) ==
  IF value = 0 \/ FirstFree(al) = 0
  THEN al
  ELSE [ al EXCEPT ![FirstFree(al)] =
           [ h |-> handler, trigger |-> timeNow + value, armedAt |-> timeNow ] ]

\* timerRepeat: the slot is taken for good; the two repeating handlers
\* (requestOneWireTemperatures, printOneWireDevices) touch only the sensor
\* bus and the serial port, so their firing changes nothing of this model
timerRepeat(al, handler) ==
  IF FirstFree(al) = 0 THEN al
  ELSE [ al EXCEPT ![FirstFree(al)] = [ h |-> handler, trigger |-> 0, armedAt |-> 0 ] ]

(***************************************************************************)
(* The machine: the globals, the outputs and the alarm slots, as a record  *)
(* the handlers transform.                                                 *)
(***************************************************************************)
Machine ==
  [ currentGrowthLightPeriod |-> currentGrowthLightPeriod,
    secondsToNextGrowthLightSwitch |-> secondsToNextGrowthLightSwitch,
    bloomLightStatus |-> bloomLightStatus,
    bloomDayCounter |-> bloomDayCounter,
    secondsToNextBloomLightSwitch |-> secondsToNextBloomLightSwitch,
    secondsToNextSleepLightSwitch |-> secondsToNextSleepLightSwitch,
    light1 |-> light1, light2 |-> light2, light3 |-> light3, pump |-> pump,
    alarms |-> alarms,
    growthCallAt |-> growthCallAt, growthWalk |-> growthWalk, bloomCallAt |-> bloomCallAt,
    sleepCallAt |-> sleepCallAt, sleepRet |-> sleepRet, sleepIn |-> sleepIn ]

\* the globals as initialised at lines 131-137, all relays off, nothing armed
FreshMachine ==
  [ currentGrowthLightPeriod |-> 0,
    secondsToNextGrowthLightSwitch |-> 0,
    bloomLightStatus |-> 0,
    bloomDayCounter |-> 0,
    secondsToNextBloomLightSwitch |-> 0,
    secondsToNextSleepLightSwitch |-> 0,
    light1 |-> FALSE, light2 |-> FALSE, light3 |-> FALSE, pump |-> FALSE,
    alarms |-> [ i \in 1..dtNBR_ALARMS |-> FreeAlarm ],
    growthCallAt |-> -1, growthWalk |-> [ passes |-> 0, top |-> -1 ], bloomCallAt |-> -1,
    sleepCallAt |-> -1, sleepRet |-> FALSE, sleepIn |-> << 0, 0 >> ]

\* the call getGrowthLightPeriod() as the handlers make it
CallGrowth(m, c, t) ==
  LET g == getGrowthLightPeriod(c, t)
  IN  [ m EXCEPT !.currentGrowthLightPeriod = g.period,
                 !.secondsToNextGrowthLightSwitch = g.secs,
                 !.growthCallAt = t,
                 !.growthWalk = g.walk ]

\* the call getBloomLightStatus()
CallBloom(m, c, start, t) ==
  LET b == getBloomLightStatus(c, start, m.bloomLightStatus, m.bloomDayCounter, t)
  IN  [ m EXCEPT !.bloomLightStatus = b.status,
                 !.bloomDayCounter = b.counter,
                 !.secondsToNextBloomLightSwitch = b.secs,
                 !.bloomCallAt = t ]

\* mutant: the time since the last bloom switch is written back to the bloom scheduler
CallSleepUpdatesBloom(m, c, t) ==
  LET s == getSleepLightStatus(c, m.secondsToNextBloomLightSwitch, m.bloomLightStatus)
  IN  [ m EXCEPT !.secondsToNextSleepLightSwitch = s.secs,
                 !.secondsToNextBloomLightSwitch =
                    secondsSinceLastBloomLightSwitch(c, @, m.bloomLightStatus),
                 !.sleepCallAt = t,
                 !.sleepRet = s.ret,
                 !.sleepIn = << m.secondsToNextBloomLightSwitch, m.bloomLightStatus >> ]

\* the call getSleepLightStatus()
CallSleep(m, c, t) ==
  LET s == getSleepLightStatus(c, m.secondsToNextBloomLightSwitch, m.bloomLightStatus)
  IN  [ m EXCEPT !.secondsToNextSleepLightSwitch = s.secs,
                 !.sleepCallAt = t,
                 !.sleepRet = s.ret,
                 !.sleepIn = << m.secondsToNextBloomLightSwitch, m.bloomLightStatus >> ]

\* lines 402-407 and 420-425 (switchBloomLightInGrowthSchemeIfNotInBloom is true)
BloomFollowsGrowth(start, t) == start = 0 \/ t < start

turnOnGrowthLight(m, c, start, t) ==
  LET m1 == [ m EXCEPT !.light1 = TRUE,
                       !.light2 = IF BloomFollowsGrowth(start, t) THEN TRUE ELSE @ ]
      m2 == CallGrowth(m1, c, t)
  IN  [ m2 EXCEPT !.alarms = timerOnce(@, t, m2.secondsToNextGrowthLightSwitch,
                                        "turnOffGrowthLight") ]

turnOffGrowthLight(m, c, start, t) ==
  LET m1 == [ m EXCEPT !.light1 = FALSE,
                       !.light2 = IF BloomFollowsGrowth(start, t) THEN FALSE ELSE @ ]
      m2 == CallGrowth(m1, c, t)
  IN  [ m2 EXCEPT !.alarms = timerOnce(@, t, m2.secondsToNextGrowthLightSwitch,
                                        "turnOnGrowthLight") ]

turnOnBloomLight(m, c, start, t) ==
  LET m2 == CallBloom([ m EXCEPT !.light2 = TRUE ], c, start, t)
  IN  [ m2 EXCEPT !.alarms = timerOnce(@, t, m2.secondsToNextBloomLightSwitch,
                                        "turnOffBloomLight") ]

turnOffBloomLight(m, c, start, t) ==
  LET m2 == CallBloom([ m EXCEPT !.light2 = FALSE ], c, start, t)
  IN  [ m2 EXCEPT !.alarms = timerOnce(@, t, m2.secondsToNextBloomLightSwitch,
                                        "turnOnBloomLight") ]

turnOnSleepLight(m, c, start, t) ==
  LET m2 == CallSleep([ m EXCEPT !.light3 = TRUE ], c, t)
  IN  [ m2 EXCEPT !.alarms = timerOnce(@, t, m2.secondsToNextSleepLightSwitch,
                                        "turnOffSleepLight") ]

turnOffSleepLight(m, c, start, t) ==
  LET m2 == CallSleep([ m EXCEPT !.light3 = FALSE ], c, t)
  IN  [ m2 EXCEPT !.alarms = timerOnce(@, t, m2.secondsToNextSleepLightSwitch,
                                        "turnOnSleepLight") ]

\* mutant: the OFF phase is given the length of the ON phase
turnOffIrrigationSameLength(m, c, start, t) ==
  [ m EXCEPT !.pump = FALSE,
             !.alarms = timerOnce(@, t, c.irrigationScheme[1], "turnOnIrrigation") ]

turnOnIrrigation(m, c, start, t) ==
  [ m EXCEPT !.pump = TRUE,
             !.alarms = timerOnce(@, t, c.irrigationScheme[1], "turnOffIrrigation") ]

turnOffIrrigation(m, c, start, t) ==
  [ m EXCEPT !.pump = FALSE,
             !.alarms = timerOnce(@, t, c.irrigationScheme[2], "turnOnIrrigation") ]

(***************************************************************************)
(* setup(), lines 150-254, with a working clock.                           *)
(***************************************************************************)
\* lines 192-210
SetupGrowth(m, c, start, t) ==
  LET m1 == CallGrowth(m, c, t)
  IN  IF m1.currentGrowthLightPeriod % 2 = 0
      THEN turnOnGrowthLight(m1, c, start, t)
      ELSE [ m1 EXCEPT !.alarms = timerOnce(@, t, m1.secondsToNextGrowthLightSwitch,
                                             "turnOnGrowthLight") ]

\* line 215: both operands are time_t, the difference is an unsigned word
BloomSetupGuard(start, t) == start > 0 /\ ULess(0, t - start)

\* lines 215-240
SetupBloom(m, c, start, t) ==
  IF BloomSetupGuard(start, t)
  THEN LET m1 == CallBloom(m, c, start, t)
           m2 == IF m1.bloomLightStatus = 0
                 THEN turnOnBloomLight(m1, c, start, t)
                 ELSE [ m1 EXCEPT !.alarms =
                          timerOnce(@, t, m1.secondsToNextBloomLightSwitch,
                                    "turnOnBloomLight") ]
           m3 == CallSleep(m2, c, t)
       IN  IF m3.sleepRet
           THEN [ m3 EXCEPT !.light3 = TRUE,
                            !.alarms = timerOnce(@, t, m3.secondsToNextSleepLightSwitch,
                                                 "turnOffSleepLight") ]
           ELSE [ m3 EXCEPT !.alarms = timerOnce(@, t, m3.secondsToNextSleepLightSwitch,
                                                 "turnOnSleepLight") ]
  ELSE m

\* lines 242-249
SetupRest(m, c, start, t) ==
  LET m1 == [ m EXCEPT !.alarms =
                timerRepeat(timerRepeat(@, "requestOneWireTemperatures"),
                            "printOneWireDevices") ]
  IN  turnOnIrrigation(m1, c, start, t)

SetupProc(m, c, start, t) ==
  SetupRest(SetupBloom(SetupGrowth(m, c, start, t), c, start, t), c, start, t)

RunHandler(h, m, c, start, t) ==
  CASE h = "turnOnGrowthLight"  -> turnOnGrowthLight(m, c, start, t)
    [] h = "turnOffGrowthLight" -> turnOffGrowthLight(m, c, start, t)
    [] h = "turnOnBloomLight"   -> turnOnBloomLight(m, c, start, t)
    [] h = "turnOffBloomLight"  -> turnOffBloomLight(m, c, start, t)
    [] h = "turnOnSleepLight"   -> turnOnSleepLight(m, c, start, t)
    [] h = "turnOffSleepLight"  -> turnOffSleepLight(m, c, start, t)
    [] h = "turnOnIrrigation"   -> turnOnIrrigation(m, c, start, t)
    [] h = "turnOffIrrigation"  -> turnOffIrrigation(m, c, start, t)

(***************************************************************************)
(* The serial commands: loop() lines 262-284, setSerialTime lines 499-517,  *)
(* setBloomStart lines 521-554, serialEvent lines 557-569.  A String is a   *)
(* sequence of one-character strings.                                      *)
(***************************************************************************)
DigitChars == << "0", "1", "2", "3", "4", "5", "6", "7", "8", "9" >>

IsDigit(ch) == \E d \in 1..10 : DigitChars[d] = ch
DigitValue(ch) == (CHOOSE d \in 1..10 : DigitChars[d] = ch) - 1

\* String::replace(ch, ""): every occurrence of ch is removed
Remove(str, ch) == SelectSeq(str, LAMBDA x : x # ch)

\* String::startsWith
startsWith(str, ch) == Len(str) > 0 /\ str[1] = ch

RECURSIVE ParseDigits(_, _, _)
ParseDigits(str, i, acc) ==
  IF i > Len(str) \/ ~IsDigit(str[i])
  THEN acc
  ELSE ParseDigits(str, i + 1, acc * 10 + DigitValue(str[i]))

\* String::toInt (atol): the number written by the leading digits, 0 if there
\* are none (the strings of the model carry no blanks and no sign)
toInt(str) == ParseDigits(str, 1, 0)

\* the decimal digits of n >= 0, as "date +%s" writes a timestamp
RECURSIVE Digits(_)
Digits(n) ==
  IF n < 10 THEN << DigitChars[n + 1] >>
  ELSE Append(Digits(n \div 10), DigitChars[(n % 10) + 1])

\* mutant: every positive timestamp is taken
ValidTimePositive(ts) == ULess(0, ts)

\* timeInput >= MIN_TIME, lines 502 and 527 (unsigned)
ValidTime(ts) == ~ULess(ts, MIN_TIME)

\* mutant: a second is lost when the clock is set
setTimeTruncated(ts) == ts - 1

\* setTime(timeInput); RTC.set(timeInput): the value of the clock afterwards
setTime(ts) == ts

\* setSerialTime: the clock afterwards and what is printed
setSerialTime(ts, clock) ==
  IF ValidTime(ts)
  THEN [ now |-> setTime(ts), out |-> << "Time before set to", "Time now set to" >> ]
  ELSE IF ts = 0
  THEN [ now |-> clock, out |-> << "Current timestamp" >> ]
  ELSE [ now |-> clock, out |-> << "Not a valid unix timestamp" >> ]

\* x / y for an unsigned 32-bit word x given by its signed representative and
\* 0 < y < 2^31: for x < 0 the word is 2^31 + (x + 2^31)
UDiv(x, y) ==
  IF x >= 0 THEN x \div y
  ELSE LET low == (x + 2147483647) + 1
       IN  2 * (1073741824 \div y) + (low \div y)
             + ((2 * (1073741824 % y) + (low % y)) \div y)

\* conversion of an unsigned word to the 16-bit int of the AVR
ToInt16(v) ==
  IF v % IntRange >= IntRange \div 2 THEN (v % IntRange) - IntRange ELSE v % IntRange

\* lines 523-524: elapsedDays(x) is x / SECS_PER_DAY with SECS_PER_DAY an
\* unsigned long, so the long difference is divided as an unsigned word
elapsedBloomDays(ts, clock) == ToInt16(UDiv(clock - ts, SECS_PER_DAY))

\* mutant: <= for <
BloomDaysAtMost(days) == days <= MAX_BLOOM_DAYS

\* line 528
BloomDaysBelowMax(days) == days < MAX_BLOOM_DAYS

\* setBloomStart of PlantTimer.ino: storedSettings.bloomStart afterwards, whether
\* it was written to the EEPROM, and what is printed
setBloomStart(ts, clock, stored) ==
  IF ValidTime(ts)
  THEN IF BloomDaysBelowMax(elapsedBloomDays(ts, clock))
       THEN [ bloomStart |-> ts, put |-> TRUE,
              out |-> << "Bloom start before set", "Bloom start now set to" >> ]
       ELSE [ bloomStart |-> 0, put |-> TRUE,
              out |-> << "Bloom days more than MAX_BLOOM_DAYS, disabling bloom start",
                         "Bloom start now set to" >> ]
  ELSE IF ts = 0
  THEN [ bloomStart |-> 0, put |-> TRUE, out |-> << "Bloom start now set to" >> ]
  ELSE IF ts = 0
  THEN [ bloomStart |-> stored, put |-> FALSE,
         out |-> << "Not a valid unix timestamp", "Bloom start currently set to" >> ]
  ELSE [ bloomStart |-> stored, put |-> FALSE, out |-> << >> ]

\* setBloomStart of src/unnamed/part_002 (lines 553-579) and of the first sketch
\* of src/unnamed/part_003 (lines 475-500): there is no branch that stores 0
setBloomStartEarlier(ts, clock, stored) ==
  IF ValidTime(ts)
  THEN IF BloomDaysBelowMax(elapsedBloomDays(ts, clock))
       THEN [ bloomStart |-> ts, put |-> TRUE,
              out |-> << "Bloom start before set", "Bloom start now set to" >> ]
       ELSE [ bloomStart |-> 0, put |-> TRUE,
              out |-> << "Bloom days more than MAX_BLOOM_DAYS, disabling bloom start",
                         "Bloom start now set to" >> ]
  ELSE IF ts = 0
  THEN [ bloomStart |-> stored, put |-> FALSE,
         out |-> << "Not a valid unix timestamp", "Bloom start currently set to" >> ]
  ELSE [ bloomStart |-> stored, put |-> FALSE, out |-> << >> ]

\* the files that hold a sketch; part_003 holds two
Sketches == { "PlantTimer.ino", "part_002", "part_003 (first)", "part_003 (second)" }

setBloomStartOf(file, ts, clock, stored) ==
  IF file \in { "part_002", "part_003 (first)" }
  THEN setBloomStartEarlier(ts, clock, stored)
  ELSE setBloomStart(ts, clock, stored)

\* mutant: a string is a command of a header it holds anywhere
HasHeaderAnywhere(str, ch) == \E i \in 1..Len(str) : str[i] = ch

\* lines 265 and 271
HasHeader(str, ch) == startsWith(str, ch)

\* the command block of loop(), lines 262-280, on the buffer str: the header
\* found, the number parsed, and the clock, storedSettings.bloomStart, the
\* EEPROM and the output afterwards
ProcessCommand(file, str, clock, stored, rom) ==
  LET buf == Remove(str, ";")
  IN  IF HasHeader(buf, "T")
      THEN LET ts == toInt(Remove(buf, "T"))
               r == setSerialTime(ts, clock)
           IN  [ kind |-> "T", value |-> ts, now |-> r.now,
                 bloomStart |-> stored, eeprom |-> rom, out |-> r.out ]
      ELSE IF HasHeader(buf, "B")
      THEN LET ts == toInt(Remove(buf, "B"))
               r == setBloomStartOf(file, ts, clock, stored)
           IN  [ kind |-> "B", value |-> ts, now |-> clock,
                 bloomStart |-> r.bloomStart,
                 eeprom |-> IF r.put THEN r.bloomStart ELSE rom,
                 out |-> r.out ]
      ELSE [ kind |-> "?", value |-> 0, now |-> clock,
             bloomStart |-> stored, eeprom |-> rom,
             out |-> << "I don't understand what you're saying" >> ]

(***************************************************************************)
(* The exhaust fan thermostat of loop(), lines 286-297.  A reading is the  *)
(* temperature getTempC() returns, in sixteenths of a degree Celsius (the  *)
(* resolution of the sensor).                                              *)
(***************************************************************************)
minRoomTemp == 23
exhaustFanHysteresis == 2
TempScale == 16

\* what getTempC() returns for a sensor that does not answer
DEVICE_DISCONNECTED_C == -127

\* getTempC(..) <= minRoomTemp, line 287
AtOrBelowMin(r) == r <= minRoomTemp * TempScale

\* mutant: the fan is turned up again at the upper threshold already
AtOrAboveHysteresis(r) == r >= (minRoomTemp + exhaustFanHysteresis) * TempScale

\* getTempC(..) > (minRoomTemp + exhaustFanHysteresis), line 293
AboveHysteresis(r) == r > (minRoomTemp + exhaustFanHysteresis) * TempScale

\* the if / else if of lines 287-297 on the two readings it takes: the flag,
\* the relay output and what is printed
Thermostat(active, out, r1, r2) ==
  IF AtOrBelowMin(r1) /\ ~active
  THEN [ active |-> TRUE, throttle |-> TRUE, out |-> << "Turned down fan" >> ]
  ELSE IF AboveHysteresis(r2) /\ active = TRUE
  THEN [ active |-> FALSE, throttle |-> FALSE, out |-> << "Turned up fan" >> ]
  ELSE [ active |-> active, throttle |-> out, out |-> << >> ]

NoPoll == [ done |-> FALSE, before |-> FALSE, r1 |-> 0, r2 |-> 0 ]

(***************************************************************************)
(* The state machine.                                                      *)
(***************************************************************************)
Store(m) ==
  /\ currentGrowthLightPeriod' = m.currentGrowthLightPeriod
  /\ secondsToNextGrowthLightSwitch' = m.secondsToNextGrowthLightSwitch
  /\ bloomLightStatus' = m.bloomLightStatus
  /\ bloomDayCounter' = m.bloomDayCounter
  /\ secondsToNextBloomLightSwitch' = m.secondsToNextBloomLightSwitch
  /\ secondsToNextSleepLightSwitch' = m.secondsToNextSleepLightSwitch
  /\ light1' = m.light1
  /\ light2' = m.light2
  /\ light3' = m.light3
  /\ pump' = m.pump
  /\ alarms' = m.alarms
  /\ growthCallAt' = m.growthCallAt
  /\ growthWalk' = m.growthWalk
  /\ bloomCallAt' = m.bloomCallAt
  /\ sleepCallAt' = m.sleepCallAt
  /\ sleepRet' = m.sleepRet
  /\ sleepIn' = m.sleepIn

InitMachine ==
  /\ currentGrowthLightPeriod = FreshMachine.currentGrowthLightPeriod
  /\ secondsToNextGrowthLightSwitch = FreshMachine.secondsToNextGrowthLightSwitch
  /\ bloomLightStatus = FreshMachine.bloomLightStatus
  /\ bloomDayCounter = FreshMachine.bloomDayCounter
  /\ secondsToNextBloomLightSwitch = FreshMachine.secondsToNextBloomLightSwitch
  /\ secondsToNextSleepLightSwitch = FreshMachine.secondsToNextSleepLightSwitch
  /\ light1 = FreshMachine.light1
  /\ light2 = FreshMachine.light2
  /\ light3 = FreshMachine.light3
  /\ pump = FreshMachine.pump
  /\ alarms = FreshMachine.alarms
  /\ growthCallAt = FreshMachine.growthCallAt
  /\ growthWalk = FreshMachine.growthWalk
  /\ bloomCallAt = FreshMachine.bloomCallAt
  /\ sleepCallAt = FreshMachine.sleepCallAt
  /\ sleepRet = FreshMachine.sleepRet
  /\ sleepIn = FreshMachine.sleepIn
  /\ bloomOnTime = TRUE
  /\ lastFired = [ h |-> "none", late |-> 0 ]
  /\ stalls = 0

\* power-up: the globals as initialised at lines 131-147, all relays off,
\* nothing armed, nothing received; cfg.bloomStart is what the EEPROM holds
InitGlobals ==
  /\ pc = "boot"
  /\ bloomStart = 0
  /\ eeprom = cfg.bloomStart
  /\ bootTime = now
  /\ serialInputString = << >>
  /\ serialStringComplete = FALSE
  /\ serialOut = << >>
  /\ lastCmd = [ kind |-> "none", value |-> 0, text |-> << >>, at |-> 0 ]
  /\ cmds = 0
  /\ sketch = "PlantTimer.ino"
  /\ fanThrottleActive = FALSE
  /\ throttle = FALSE
  /\ lastPoll = NoPoll
  /\ clockAtBoot = "none"
  /\ InitMachine

Init ==
  /\ cfg \in Configs
  /\ now \in { S0 + d : d \in BootOffsets(cfg) }
  /\ timeStatus = "timeSet"
  /\ InitGlobals

\* mutant: setup goes on whatever the clock says
ClockIgnored(st) == TRUE

\* timeStatus() == timeSet, line 173
ClockValid(st) == st = "timeSet"

\* setup(): with a valid clock the EEPROM is read and everything is armed,
\* otherwise only the message of line 252 is printed
Setup ==
  /\ pc = "boot"
  /\ pc' = "run"
  /\ clockAtBoot' = timeStatus
  /\ IF ClockValid(timeStatus)
     THEN /\ bloomStart' = eeprom
          /\ Store(SetupProc(Machine, cfg, eeprom, now))
          /\ UNCHANGED serialVars
     ELSE /\ Store(Machine)
          /\ serialOut' = << "Fix the RTC!" >>
          /\ UNCHANGED << bloomStart, eeprom, serialInputString, serialStringComplete,
                          lastCmd, cmds, sketch >>
  /\ lastFired' = [ h |-> "setup", late |-> 0 ]
  /\ UNCHANGED << now, cfg, bootTime, bloomOnTime, stalls, timeStatus >>
  /\ UNCHANGED fanVars

Pending == { i \in 1..dtNBR_ALARMS : alarms[i].h \in OneShotHandlers }
Due == { i \in Pending : alarms[i].trigger <= now }

\* mutant: the slot of a one-shot alarm is not freed when it is served
FireKeepsSlot(i) ==
  /\ pc = "run"
  /\ i \in Due
  /\ Store(RunHandler(alarms[i].h, Machine, cfg, bloomStart, now))
  /\ bloomOnTime' = (bloomOnTime /\ (alarms[i].h \in BloomHandlers => alarms[i].trigger = now))
  /\ lastFired' = [ h |-> alarms[i].h, late |-> now - alarms[i].trigger ]
  /\ UNCHANGED << pc, now, cfg, bloomStart, bootTime, stalls >>
  /\ UNCHANGED serialVars
  /\ UNCHANGED << timeStatus, clockAtBoot >>
  /\ UNCHANGED fanVars

\* Alarm.delay(1) serving one due alarm: the slot is freed, then the handler runs
Fire(i) ==
  /\ pc = "run"
  /\ i \in Due
  /\ Store(RunHandler(alarms[i].h, [ Machine EXCEPT !.alarms[i] = FreeAlarm ],
                      cfg, bloomStart, now))
  /\ bloomOnTime' = (bloomOnTime /\ (alarms[i].h \in BloomHandlers => alarms[i].trigger = now))
  /\ lastFired' = [ h |-> alarms[i].h, late |-> now - alarms[i].trigger ]
  /\ UNCHANGED << pc, now, cfg, bloomStart, bootTime, stalls >>
  /\ UNCHANGED serialVars
  /\ UNCHANGED << timeStatus, clockAtBoot >>
  /\ UNCHANGED fanVars

\* the delays by which a stalled control loop comes late to the next trigger
StallDelays == { 1, 25000 }

FutureTriggers == { alarms[i].trigger : i \in { j \in Pending : alarms[j].trigger > now } }

\* the handlers whose alarm comes next
NextHandlers ==
  { alarms[i].h : i \in { j \in Pending : alarms[j].trigger = Min(FutureTriggers) } }

\* the alarms that are due are served before the clock moves on; an alarm
\* armed with a delay that is not positive (as a 32-bit sum its trigger lies in
\* the past) is due again as soon as it is armed, and the clock moves on all
\* the same
Blocking == { i \in Due : alarms[i].trigger > alarms[i].armedAt }

\* time passes up to the next trigger (a complete command is processed by the
\* next pass of loop(), before the clock moves on)
Advance ==
  /\ pc = "run"
  /\ ~serialStringComplete
  /\ Blocking = {}
  /\ FutureTriggers # {}
  /\ Min(FutureTriggers) <= bootTime + Horizon
  /\ cmds > 0 => Min(FutureTriggers) <= lastCmd.at + AfterCmd
  /\ now' = Min(FutureTriggers)
  /\ UNCHANGED << pc, cfg, bloomStart, currentGrowthLightPeriod,
                  secondsToNextGrowthLightSwitch, bloomLightStatus, bloomDayCounter,
                  secondsToNextBloomLightSwitch, secondsToNextSleepLightSwitch,
                  light1, light2, light3, pump, alarms, growthCallAt, growthWalk, bloomCallAt,
                  sleepCallAt, sleepRet, sleepIn, bootTime, bloomOnTime, lastFired, stalls >>
  /\ UNCHANGED serialVars
  /\ UNCHANGED << timeStatus, clockAtBoot >>
  /\ UNCHANGED fanVars

\* the control loop stalls and comes d seconds late to the next trigger (followed
\* for the triggers of the growth and the bloom scheduler)
Stall(d) ==
  /\ pc = "run"
  /\ ~serialStringComplete
  /\ Blocking = {}
  /\ FutureTriggers # {}
  /\ NextHandlers \cap (GrowthHandlers \cup BloomHandlers) # {}
  /\ stalls < MaxStalls
  /\ Min(FutureTriggers) + d <= bootTime + Horizon
  /\ now' = Min(FutureTriggers) + d
  /\ stalls' = stalls + 1
  /\ UNCHANGED << pc, cfg, bloomStart, currentGrowthLightPeriod,
                  secondsToNextGrowthLightSwitch, bloomLightStatus, bloomDayCounter,
                  secondsToNextBloomLightSwitch, secondsToNextSleepLightSwitch,
                  light1, light2, light3, pump, alarms, growthCallAt, growthWalk, bloomCallAt,
                  sleepCallAt, sleepRet, sleepIn, bootTime, bloomOnTime, lastFired >>
  /\ UNCHANGED serialVars
  /\ UNCHANGED << timeStatus, clockAtBoot >>
  /\ UNCHANGED fanVars

(***************************************************************************)
(* The serial port.                                                        *)
(***************************************************************************)
Cmd(header, payload) == << header >> \o payload \o << ";" >>

\* what the operator sends when the clock shows the time clock: whole commands ...
CmdTexts(clock) ==
  { Cmd("T", << "0" >>), Cmd("T", << >>),
    Cmd("T", Digits(MIN_TIME)), Cmd("T", Digits(MIN_TIME - 1)),
    Cmd("T", Digits(clock + 7200)),
    Cmd("B", << "0" >>), Cmd("B", << >>),
    Cmd("B", Digits(MIN_TIME - 1)), Cmd("B", << "5" >>),
    Cmd("B", Digits(clock - 3600)), Cmd("B", Digits(clock + 3600)),
    Cmd("B", Digits(clock - (MAX_BLOOM_DAYS * SECS_PER_DAY - 1))),
    Cmd("B", Digits(clock - MAX_BLOOM_DAYS * SECS_PER_DAY)),
    Cmd("X", << >>), Cmd("X", << "B", "0" >>), << ";" >>, Digits(MIN_TIME) \o << ";" >> }

\* ... and the start of a command whose rest comes with the next characters
CmdStarts == { << "T" >> }

\* ... and what is read in one go when more than one command has arrived since
\* the last pass of loop(): two commands, or a command and the start of the next
CmdBursts(clock) ==
  { Cmd("T", Digits(clock + 7200)) \o Cmd("B", << "0" >>),
    Cmd("B", Digits(clock - 3600)) \o Cmd("T", Digits(clock + 7200)),
    Cmd("B", Digits(clock - 3600)) \o << "T" >> }

\* serialEvent(): the characters that have arrived are appended to the buffer
serialEvent(chunk) ==
  /\ pc = "run"
  /\ ~serialStringComplete
  /\ cmds < MaxCmds
  /\ now <= bootTime + CmdWindow
  /\ serialInputString' = serialInputString \o chunk
  /\ serialStringComplete' = (\E i \in 1..Len(chunk) : chunk[i] = ";")
  /\ UNCHANGED << pc, now, cfg, bloomStart, currentGrowthLightPeriod,
                  secondsToNextGrowthLightSwitch, bloomLightStatus, bloomDayCounter,
                  secondsToNextBloomLightSwitch, secondsToNextSleepLightSwitch,
                  light1, light2, light3, pump, alarms, growthCallAt, growthWalk, bloomCallAt,
                  sleepCallAt, sleepRet, sleepIn, bootTime, bloomOnTime, lastFired, stalls,
                  eeprom, serialOut, lastCmd, cmds, sketch, timeStatus, clockAtBoot >>
  /\ UNCHANGED fanVars

\* mutant: a command makes the sketch set its schedulers up again
LoopCommandResyncs ==
  /\ pc = "run"
  /\ serialStringComplete
  /\ LET r == ProcessCommand(sketch, serialInputString, now, bloomStart, eeprom)
     IN  /\ now' = r.now
         /\ bloomStart' = r.bloomStart
         /\ eeprom' = r.eeprom
         /\ serialOut' = r.out
         /\ lastCmd' = [ kind |-> r.kind, value |-> r.value, text |-> serialInputString,
                         at |-> r.now ]
         /\ timeStatus' = IF r.kind = "T" /\ ValidTime(r.value) THEN "timeSet" ELSE timeStatus
         /\ Store(SetupGrowth([ Machine EXCEPT !.alarms = FreshMachine.alarms ],
                              cfg, r.bloomStart, r.now))
  /\ serialInputString' = << >>
  /\ serialStringComplete' = FALSE
  /\ cmds' = cmds + 1
  /\ lastFired' = [ h |-> "command", late |-> 0 ]
  /\ UNCHANGED << pc, cfg, bootTime, bloomOnTime, stalls, sketch, clockAtBoot >>
  /\ UNCHANGED fanVars

\* the command block of loop(), lines 262-284
LoopCommand ==
  /\ pc = "run"
  /\ serialStringComplete
  /\ LET r == ProcessCommand(sketch, serialInputString, now, bloomStart, eeprom)
     IN  /\ now' = r.now
         /\ bloomStart' = r.bloomStart
         /\ eeprom' = r.eeprom
         /\ serialOut' = r.out
         /\ lastCmd' = [ kind |-> r.kind, value |-> r.value, text |-> serialInputString,
                         at |-> r.now ]
         /\ timeStatus' = IF r.kind = "T" /\ ValidTime(r.value) THEN "timeSet" ELSE timeStatus
  /\ serialInputString' = << >>
  /\ serialStringComplete' = FALSE
  /\ cmds' = cmds + 1
  /\ lastFired' = [ h |-> "command", late |-> 0 ]
  /\ UNCHANGED << pc, cfg, currentGrowthLightPeriod,
                  secondsToNextGrowthLightSwitch, bloomLightStatus, bloomDayCounter,
                  secondsToNextBloomLightSwitch, secondsToNextSleepLightSwitch,
                  light1, light2, light3, pump, alarms, growthCallAt, growthWalk, bloomCallAt,
                  sleepCallAt, sleepRet, sleepIn, bootTime, bloomOnTime, stalls, sketch,
                  clockAtBoot >>
  /\ UNCHANGED fanVars

Next ==
  \/ Setup
  \/ \E i \in 1..dtNBR_ALARMS : Fire(i)
  \/ Advance
  \/ \E d \in StallDelays : Stall(d)

Spec == Init /\ [][Next]_vars

(***************************************************************************)
(* The sketch with its serial port: a boot 130 days after S0, with a bloom  *)
(* start behind it or with none, and commands arriving.                    *)
(***************************************************************************)
CmdBloomStart == S0 + 130 * SECS_PER_DAY

CmdCfg == [ DriftCfg EXCEPT !.bloomStart = CmdBloomStart ]
CmdNoBloomCfg == [ DriftCfg EXCEPT !.bloomStart = 0 ]

InitCmd ==
  /\ cfg \in { CmdCfg, CmdNoBloomCfg }
  /\ now = CmdBloomStart + 37199
  /\ timeStatus = "timeSet"
  /\ InitGlobals

NextCmd ==
  \/ Setup
  \/ \E i \in 1..dtNBR_ALARMS : Fire(i)
  \/ Advance
  \/ \E chunk \in CmdTexts(now) \cup CmdBursts(now)
                   \cup (IF serialInputString = << >> THEN CmdStarts ELSE {}) :
       serialEvent(chunk)
  \/ LoopCommand

SpecCmd == InitCmd /\ [][NextCmd]_vars

(***************************************************************************)
(* The sketch from power-up with a clock that is valid or not, with the    *)
(* configuration of the repository or one whose growth scheme does not sum *)
(* to a day, the thermostat polling and commands arriving.                 *)
(***************************************************************************)
BadSumCfg == [ DefaultCfg EXCEPT !.growthLightScheme = << 720, 330, 60, 300 >> ]

\* the readings a poll can take, the same twice or changing between the two calls
Readings ==
  { DEVICE_DISCONNECTED_C * TempScale, 22 * TempScale,
    minRoomTemp * TempScale, minRoomTemp * TempScale + 1,
    (minRoomTemp + exhaustFanHysteresis) * TempScale,
    (minRoomTemp + exhaustFanHysteresis) * TempScale + 1 }

ReadingPairs ==
  { << r, r >> : r \in Readings }
    \cup { << DEVICE_DISCONNECTED_C * TempScale, 30 * TempScale >>,
           << 30 * TempScale, DEVICE_DISCONNECTED_C * TempScale >> }

\* what the operator sends to a device whose clock may show nothing
LoopCmdTexts == { Cmd("T", Digits(S0 + 7200)), Cmd("T", << "0" >>), Cmd("B", Digits(S0)) }

\* the thermostat block of one pass of loop(), lines 286-297: it comes after
\* Alarm.delay(1) has served what was due and after the command block
Poll(r1, r2) ==
  /\ pc = "run"
  /\ ~serialStringComplete
  /\ Due = {}
  /\ LET r == Thermostat(fanThrottleActive, throttle, r1, r2)
     IN  /\ fanThrottleActive' = r.active
         /\ throttle' = r.throttle
         /\ serialOut' = r.out
  /\ lastPoll' = [ done |-> TRUE, before |-> fanThrottleActive, r1 |-> r1, r2 |-> r2 ]
  /\ UNCHANGED << pc, now, cfg, bloomStart, currentGrowthLightPeriod,
                  secondsToNextGrowthLightSwitch, bloomLightStatus, bloomDayCounter,
                  secondsToNextBloomLightSwitch, secondsToNextSleepLightSwitch,
                  light1, light2, light3, pump, alarms, growthCallAt, growthWalk, bloomCallAt,
                  sleepCallAt, sleepRet, sleepIn, bootTime, bloomOnTime, lastFired, stalls,
                  eeprom, serialInputString, serialStringComplete, lastCmd, cmds, sketch,
                  timeStatus, clockAtBoot >>

\* with no valid clock now() counts from 0
InitLoop ==
  /\ cfg \in { DefaultCfg, BadSumCfg }
  /\ timeStatus \in { "timeSet", "timeNotSet" }
  /\ now = IF timeStatus = "timeSet" THEN S0 + 37200 ELSE 0
  /\ InitGlobals

NextLoop ==
  \/ Setup
  \/ \E i \in 1..dtNBR_ALARMS : Fire(i)
  \/ Advance
  \/ \E chunk \in LoopCmdTexts : serialEvent(chunk)
  \/ LoopCommand
  \/ \E p \in ReadingPairs : Poll(p[1], p[2])

SpecLoop == InitLoop /\ [][NextLoop]_vars

\* loop() is called again as soon as it returns: a complete command is
\* processed, the thermostat is polled and time goes on to the next trigger.
\* Characters arrive or not. (Setup is over in the states the conditions are
\* about.)
SpecLoopFair ==
  /\ SpecLoop
  /\ WF_vars(Advance)
  /\ WF_vars(LoopCommand)
  /\ WF_vars(\E p \in ReadingPairs : Poll(p[1], p[2]))

(***************************************************************************)
(* setBloomStart alone, as each sketch of the repository has it: called    *)
(* once on a clock, a stored bloomStart and a timestamp.                   *)
(***************************************************************************)
VariantClocks == { S0 + 3600, CmdBloomStart + 37199 }
VariantStored == { 0, S0, CmdBloomStart }

VariantInputs(clock) ==
  { 0, 5, MIN_TIME - 1, MIN_TIME, S0, clock - 3600, clock,
    clock - MAX_BLOOM_DAYS * SECS_PER_DAY }

InitVariants ==
  /\ pc = "call"
  /\ cfg = CmdCfg
  /\ sketch \in Sketches
  /\ now \in VariantClocks
  /\ bootTime = now
  /\ bloomStart \in VariantStored
  /\ eeprom = bloomStart
  /\ serialInputString = << >>
  /\ serialStringComplete = FALSE
  /\ serialOut = << >>
  /\ lastCmd = [ kind |-> "none", value |-> 0, text |-> << >>, at |-> 0 ]
  /\ cmds = 0
  /\ timeStatus = "timeSet"
  /\ fanThrottleActive = FALSE
  /\ throttle = FALSE
  /\ lastPoll = NoPoll
  /\ clockAtBoot = "none"
  /\ InitMachine

\* one call setBloomStart(ts) of the sketch
CallSetBloomStart(ts) ==
  /\ pc = "call"
  /\ pc' = "done"
  /\ LET r == setBloomStartOf(sketch, ts, now, bloomStart)
     IN  /\ bloomStart' = r.bloomStart
         /\ eeprom' = IF r.put THEN r.bloomStart ELSE eeprom
         /\ serialOut' = r.out
  /\ lastCmd' = [ kind |-> "B", value |-> ts, text |-> << >>, at |-> now ]
  /\ cmds' = cmds + 1
  /\ UNCHANGED << now, cfg, currentGrowthLightPeriod,
                  secondsToNextGrowthLightSwitch, bloomLightStatus, bloomDayCounter,
                  secondsToNextBloomLightSwitch, secondsToNextSleepLightSwitch,
                  light1, light2, light3, pump, alarms, growthCallAt, growthWalk, bloomCallAt,
                  sleepCallAt, sleepRet, sleepIn, bootTime, bloomOnTime, lastFired, stalls,
                  serialInputString, serialStringComplete, sketch, timeStatus,
                  clockAtBoot >>
  /\ UNCHANGED fanVars

NextVariants == \E ts \in VariantInputs(now) : CallSetBloomStart(ts)

SpecVariants == InitVariants /\ [][NextVariants]_vars

(***************************************************************************)
(* The three computations alone, each called once: getBloomLightStatus on  *)
(* the values its globals may hold on entry, getGrowthLightPeriod as each  *)
(* sketch of the repository has it, getSleepLightStatus on what the bloom  *)
(* scheduler may have left.                                                *)
(***************************************************************************)
\* a bloom day of 2 + 1 minutes, shortened by 3 minutes from day 0 on
StuckCfg ==
  [ DefaultCfg EXCEPT !.bloomLightScheme = << 2, 1 >>,
                      !.reductionOfDaytimeInMinutes = 3,
                      !.prolongNighttimeInMinutes = 0,
                      !.startOfDaytimeReduction = 0 ]

BloomCallConfigs == { DefaultCfg, DriftCfg, StuckCfg }
BloomCallClocks == { S0 + 119, S0 + 120, S0 + 90000 }
BloomCallCounters == { 0, 1, 255 }

InitCallsRest ==
  /\ timeStatus = "timeSet"
  /\ bootTime = now
  /\ bloomStart = cfg.bloomStart
  /\ eeprom = bloomStart
  /\ serialInputString = << >>
  /\ serialStringComplete = FALSE
  /\ serialOut = << >>
  /\ lastCmd = [ kind |-> "none", value |-> 0, text |-> << >>, at |-> 0 ]
  /\ cmds = 0
  /\ fanThrottleActive = FALSE
  /\ throttle = FALSE
  /\ lastPoll = NoPoll
  /\ clockAtBoot = "none"
  /\ currentGrowthLightPeriod = FreshMachine.currentGrowthLightPeriod
  /\ secondsToNextGrowthLightSwitch = FreshMachine.secondsToNextGrowthLightSwitch
  /\ secondsToNextSleepLightSwitch = FreshMachine.secondsToNextSleepLightSwitch
  /\ light1 = FreshMachine.light1
  /\ light2 = FreshMachine.light2
  /\ light3 = FreshMachine.light3
  /\ pump = FreshMachine.pump
  /\ alarms = FreshMachine.alarms
  /\ growthCallAt = FreshMachine.growthCallAt
  /\ growthWalk = FreshMachine.growthWalk
  /\ bloomCallAt = FreshMachine.bloomCallAt
  /\ sleepCallAt = FreshMachine.sleepCallAt
  /\ sleepRet = FreshMachine.sleepRet
  /\ sleepIn = FreshMachine.sleepIn
  /\ bloomOnTime = TRUE
  /\ lastFired = [ h |-> "none", late |-> 0 ]
  /\ stalls = 0

\* before a call of getBloomLightStatus
InitBloomCall ==
  /\ pc = "bloom"
  /\ sketch = "PlantTimer.ino"
  /\ cfg \in BloomCallConfigs
  /\ now \in BloomCallClocks
  /\ bloomLightStatus \in { 0, 1 }
  /\ bloomDayCounter \in BloomCallCounters
  /\ secondsToNextBloomLightSwitch = 0
  /\ InitCallsRest

\* one call getBloomLightStatus()
CallGetBloomLightStatus ==
  /\ pc = "bloom"
  /\ pc' = "done"
  /\ Store(CallBloom(Machine, cfg, bloomStart, now))
  /\ lastFired' = [ h |-> "getBloomLightStatus", late |-> 0 ]
  /\ UNCHANGED << now, cfg, bloomStart, bootTime, bloomOnTime, stalls >>
  /\ UNCHANGED serialVars
  /\ UNCHANGED << timeStatus, clockAtBoot >>
  /\ UNCHANGED fanVars

\* three short periods and a long one: a second cycle is walked far into
TightCfg == [ DefaultCfg EXCEPT !.growthLightScheme = << 100, 100, 100, 1140 >> ]

GrowthCallConfigs == { DefaultCfg, DriftCfg, NoBloomCfg, TightCfg }
GrowthCallClocks == { S0 + d : d \in DayOffsets }

\* what a read behind the end of growthLightScheme may give
OobValues == { -1, 0, 330 }

\* before a call of getGrowthLightPeriod, in one of the sketches
InitGrowthCall ==
  /\ pc = "growth"
  /\ sketch \in Sketches
  /\ cfg \in GrowthCallConfigs
  /\ now \in GrowthCallClocks
  /\ bloomLightStatus = 0
  /\ bloomDayCounter = 0
  /\ secondsToNextBloomLightSwitch = 0
  /\ InitCallsRest

\* one call getGrowthLightPeriod() of the sketch
CallGetGrowthLightPeriod(oob) ==
  /\ pc = "growth"
  /\ pc' = "done"
  /\ LET g == getGrowthLightPeriodOf(sketch, cfg, now, oob)
     IN  Store([ Machine EXCEPT !.currentGrowthLightPeriod = g.period,
                                !.secondsToNextGrowthLightSwitch = g.secs,
                                !.growthCallAt = now,
                                !.growthWalk = g.walk ])
  /\ lastFired' = [ h |-> "getGrowthLightPeriod", late |-> 0 ]
  /\ UNCHANGED << now, cfg, bloomStart, bootTime, bloomOnTime, stalls >>
  /\ UNCHANGED serialVars
  /\ UNCHANGED << timeStatus, clockAtBoot >>
  /\ UNCHANGED fanVars

SleepCallClocks == { S0 + 46200, S0 + 90000 }
SleepCallSeconds == { 1, 599, 600, 601, 900, 3600, 41400, 46800 }
SleepCallCounters == { 0, 12 }

\* before a call of getSleepLightStatus
InitSleepCall ==
  /\ pc = "sleep"
  /\ sketch = "PlantTimer.ino"
  /\ cfg \in { DefaultCfg, DriftCfg }
  /\ now \in SleepCallClocks
  /\ bloomLightStatus \in { 0, 1 }
  /\ bloomDayCounter \in SleepCallCounters
  /\ secondsToNextBloomLightSwitch \in SleepCallSeconds
  /\ InitCallsRest

\* one call getSleepLightStatus()
CallGetSleepLightStatus ==
  /\ pc = "sleep"
  /\ pc' = "done"
  /\ Store(CallSleep(Machine, cfg, now))
  /\ lastFired' = [ h |-> "getSleepLightStatus", late |-> 0 ]
  /\ UNCHANGED << now, cfg, bloomStart, bootTime, bloomOnTime, stalls >>
  /\ UNCHANGED serialVars
  /\ UNCHANGED << timeStatus, clockAtBoot >>
  /\ UNCHANGED fanVars

InitCalls == InitBloomCall \/ InitGrowthCall \/ InitSleepCall

NextCalls ==
  \/ CallGetBloomLightStatus
  \/ \E oob \in OobValues : CallGetGrowthLightPeriod(oob)
  \/ CallGetSleepLightStatus

SpecCalls == InitCalls /\ [][NextCalls]_vars

(***************************************************************************)
(* Properties.                                                             *)
(***************************************************************************)
TimeOfDay(t) == t % SECS_PER_DAY
DayOf(t) == t \div SECS_PER_DAY

ProbeStep == 900

\* the offsets at which a computation is repeated inside a period of s seconds
Probes(s) ==
  { d \in { 0, 1, 59, 60, s - 61, s - 60, s - 2, s - 1 }
            \cup { k * ProbeStep : k \in 0..(s \div ProbeStep) } : d >= 0 /\ d < s }

\* C1: getGrowthLightPeriod is re-derivable: with s the seconds to the next
\* switch computed at t, a computation at a time of [t, t + s - 1] gives the
\* same period, and one at t + s gives the next period (mod the number of
\* periods), also when t + s is on a later day than t.
C1_Rederivable ==
  (pc = "run" /\ growthCallAt = now) =>
    /\ \A d \in Probes(secondsToNextGrowthLightSwitch) :
         getGrowthLightPeriod(cfg, now + d).period = currentGrowthLightPeriod
    /\ getGrowthLightPeriod(cfg, now + secondsToNextGrowthLightSwitch).period
         = (currentGrowthLightPeriod + 1) % Len(cfg.growthLightScheme)

\* a growth handler has just computed a period whose end is on the next day
C1_Witness ==
  /\ pc = "run"
  /\ growthCallAt = now
  /\ lastFired.h \in GrowthHandlers
  /\ DayOf(now + secondsToNextGrowthLightSwitch) > DayOf(now)
  /\ secondsToNextGrowthLightSwitch > 1

\* C2: with the scheme {720, 330, 60, 330} and the start time 16:20: at
\* 16:20:00 the period is 0 with 43200 seconds to the next switch, at 04:19:00
\* it is still 0, at 04:20:00 it is 1 with 19800 seconds to the next switch.
C2_Scenario ==
  (pc = "run" /\ growthCallAt = now /\ cfg.growthLightScheme = << 720, 330, 60, 330 >>) =>
    /\ TimeOfDay(now) = 16 * 3600 + 20 * 60 =>
         currentGrowthLightPeriod = 0 /\ secondsToNextGrowthLightSwitch = 43200
    /\ TimeOfDay(now) = 4 * 3600 + 19 * 60 => currentGrowthLightPeriod = 0
    /\ TimeOfDay(now) = 4 * 3600 + 20 * 60 =>
         currentGrowthLightPeriod = 1 /\ secondsToNextGrowthLightSwitch = 19800

\* booted at 16:20:00, the growth OFF handler has run at 04:20:00 the next morning
C2_Witness ==
  /\ pc = "run"
  /\ cfg.growthLightScheme = << 720, 330, 60, 330 >>
  /\ TimeOfDay(bootTime) = 16 * 3600 + 20 * 60
  /\ TimeOfDay(now) = 4 * 3600 + 20 * 60
  /\ growthCallAt = now
  /\ lastFired.h = "turnOffGrowthLight"

\* the scheme is also computed one minute before 04:20
C2_WitnessBefore ==
  /\ pc = "run"
  /\ cfg.growthLightScheme = << 720, 330, 60, 330 >>
  /\ TimeOfDay(now) = 4 * 3600 + 19 * 60
  /\ growthCallAt = now

BloomCycle(c) == (c.bloomLightScheme[1] + c.bloomLightScheme[2]) * SECS_PER_MIN
BloomOnSecs(c) == c.bloomLightScheme[1] * SECS_PER_MIN
BloomPhase(c, start, t) == (t - start) % BloomCycle(c)

\* the next edge of the nominal bloom cycle strictly after t
NextBloomEdge(c, start, t) ==
  IF BloomPhase(c, start, t) < BloomOnSecs(c)
  THEN t - BloomPhase(c, start, t) + BloomOnSecs(c)
  ELSE t - BloomPhase(c, start, t) + BloomCycle(c)

BloomAlarms(al) == { i \in 1..Len(al) : al[i].h \in BloomHandlers }
BloomDue == { i \in BloomAlarms(alarms) : alarms[i].trigger <= now }

\* C3: after a boot with bloomStart = S <= now, without drift and with the
\* bloom timers firing on time, the bloom light is ON from S + k*(on+off) to
\* S + k*(on+off) + on and OFF from there to S + (k+1)*(on+off), for every k:
\* at any instant the output is that of the nominal cycle and the pending
\* bloom timer is set to the next edge of the nominal cycle.  (Stated for the
\* boots strictly after S: at now = S the guard of line 215 is false and setup
\* arms no bloom timer at all.)
C3_BloomCycleExact ==
  ( /\ pc = "run"
    /\ bloomStart > 0
    /\ bloomStart < bootTime
    /\ DriftOff(cfg)
    /\ bloomOnTime
    /\ BloomDue = {} ) =>
    /\ light2 = (BloomPhase(cfg, bloomStart, now) < BloomOnSecs(cfg))
    /\ \E i \in BloomAlarms(alarms) :
         alarms[i].trigger = NextBloomEdge(cfg, bloomStart, now)

C5_CounterIsCycles ==
  ( /\ pc = "run"
    /\ DriftOff(cfg)
    /\ bloomStart > 0
    /\ bloomCallAt >= bloomStart ) =>
    bloomDayCounter = (bloomCallAt - bloomStart) \div BloomCycle(cfg)

\* the trigger of the pending bloom timer, -1 if there is none
BloomTrigger(al) ==
  IF BloomAlarms(al) = {} THEN -1 ELSE Min({ al[i].trigger : i \in BloomAlarms(al) })

\* C6: a cold boot at a time t > S ends setup with the bloom output, the instant
\* of the next bloom transition and the bloomDayCounter of a system booted at
\* the start of the bloom run whose bloom handlers have run on time up to t.
\* (The running system is the one booted in the first second after S: at
\* now = S the guard of line 215 is false and setup arms no bloom timer.)
C6_ColdBootMatches ==
  ( /\ pc = "run"
    /\ bloomStart > 0
    /\ bootTime = bloomStart + 1
    /\ now > bootTime
    /\ stalls = 0
    /\ bloomOnTime
    /\ BloomDue = {} ) =>
    LET cold == SetupProc(FreshMachine, cfg, bloomStart, now)
    IN  /\ cold.light2 = light2
        /\ BloomTrigger(cold.alarms) = BloomTrigger(alarms)
        /\ cold.bloomDayCounter = bloomDayCounter

RECURSIVE SchemePrefix(_, _)
\* the minutes of the first k periods of a scheme
SchemePrefix(scheme, k) == IF k = 0 THEN 0 ELSE SchemePrefix(scheme, k - 1) + scheme[k]

\* the nominal boundaries of the daily scheme on the days around t
GrowthBoundaries(c, t) ==
  { (DayOf(t) + day) * SECS_PER_DAY
      + growthLightStartTimeHour * 3600 + growthLightStartTimeMinute * 60
      + SchemePrefix(c.growthLightScheme, k) * 60 :
    day \in { -2, -1, 0, 1 }, k \in 0..(Len(c.growthLightScheme) - 1) }

FirstGrowthBoundaryAfter(c, t) == Min({ b \in GrowthBoundaries(c, t) : b > t })

GrowthAlarms == { i \in 1..dtNBR_ALARMS : alarms[i].h \in GrowthHandlers }

\* C7: whenever the growth scheduler is armed at a time t (at boot or in a
\* handler, late or not), t + secondsToNextGrowthLightSwitch is the first nominal
\* boundary of the daily scheme strictly after t, and that is the trigger armed.
C7_GrowthNoDrift ==
  pc = "run" =>
    /\ growthCallAt + secondsToNextGrowthLightSwitch
         = FirstGrowthBoundaryAfter(cfg, growthCallAt)
    /\ \A i \in GrowthAlarms :
         alarms[i].trigger = FirstGrowthBoundaryAfter(cfg, alarms[i].armedAt)

\* a growth handler has just run late and has armed the next one
C7_Witness ==
  /\ pc = "run"
  /\ lastFired.h \in GrowthHandlers
  /\ lastFired.late > 0
  /\ growthCallAt = now
  /\ \E i \in GrowthAlarms : alarms[i].armedAt = now

\* C8: after every getGrowthLightPeriod secondsToNextGrowthLightSwitch is > 0,
\* and after every getBloomLightStatus made with 0 < bloomStart <= now
\* secondsToNextBloomLightSwitch is > 0.
C8_SecondsPositive ==
  /\ growthCallAt >= 0 => secondsToNextGrowthLightSwitch > 0
  /\ (bloomStart > 0 /\ bloomCallAt >= bloomStart) => secondsToNextBloomLightSwitch > 0

\* a bloom handler has just computed at an edge of its cycle, a growth handler before it
C8_Witness ==
  /\ pc = "run"
  /\ lastFired.h \in BloomHandlers
  /\ lastFired.late = 0
  /\ bloomCallAt = now
  /\ bloomStart > 0 /\ bloomStart <= now
  /\ growthCallAt > bootTime

\* C9: after every getSleepLightStatus secondsToNextSleepLightSwitch is > 0.
C9_SleepSecondsPositive ==
  sleepCallAt >= 0 => secondsToNextSleepLightSwitch > 0

\* C10: getSleepLightStatus returns true exactly when the next bloom
\* transition is the OFF edge and at most sleepLightScheme[0] minutes away, or
\* the last bloom transition was the OFF edge, at most sleepLightScheme[1]
\* minutes ago.
C10_SleepWindow ==
  sleepCallAt >= 0 =>
    ( sleepRet <=>
        \/ /\ sleepIn[2] = 0
           /\ sleepIn[1] <= cfg.sleepLightScheme[1] * SECS_PER_MIN
        \/ /\ sleepIn[2] = 1
           /\ cfg.bloomLightScheme[2] * SECS_PER_MIN - sleepIn[1]
                <= cfg.sleepLightScheme[2] * SECS_PER_MIN )

SleepAlarms(al) == { i \in 1..Len(al) : al[i].h \in SleepHandlers }

\* the far-red window is open: the bloom light is ON and its OFF edge (the
\* trigger of the pending turnOffBloomLight) is at most sleepLightScheme[0]
\* minutes ahead, or the bloom light went OFF (in the last bloom handler, run at
\* bloomCallAt) less than sleepLightScheme[1] minutes ago
SleepWindowOpen ==
  \/ /\ light2
     /\ \E i \in BloomAlarms(alarms) :
          /\ alarms[i].h = "turnOffBloomLight"
          /\ alarms[i].trigger - now <= cfg.sleepLightScheme[1] * SECS_PER_MIN
  \/ /\ ~light2
     /\ bloomCallAt > bootTime
     /\ now - bloomCallAt < cfg.sleepLightScheme[2] * SECS_PER_MIN

\* C11: in a run with bloom mode active (a boot after bloomStart, then bloom
\* and far-red timers served as they come due), the far-red output is ON
\* exactly inside the windows from sleepLightScheme[0] minutes before a bloom
\* OFF edge to sleepLightScheme[1] minutes after it, and OFF at all other times.
C11_FarRedWindow ==
  ( /\ pc = "run"
    /\ bloomStart > 0
    /\ bloomStart < bootTime
    /\ stalls = 0
    /\ bloomOnTime
    /\ Due = {}
    /\ (light2 \/ bloomCallAt > bootTime) ) =>
    (light3 <=> SleepWindowOpen)

\* C13: at boot the bloom and far-red schedulers are set up (getBloomLightStatus
\* run, timers armed) exactly when bloomStart > 0 and bloomStart <= now; with
\* bloomStart in the future no bloom or far-red timer is armed and the bloom
\* scheduler has not run.
C13_BootGuard ==
  (pc = "run" /\ lastFired.h = "setup") =>
    /\ (bloomCallAt = now) <=> (bloomStart > 0 /\ ~ULess(now, bloomStart))
    /\ ULess(now, bloomStart) =>
         /\ BloomAlarms(alarms) = {}
         /\ SleepAlarms(alarms) = {}
         /\ bloomCallAt = -1

\* C12: in every state with bloomStart = 0 (at boot, or after a B command that
\* stored 0 while the bloom scheduler was running) no bloom timer and no far-red
\* timer is pending, and the handler that ran last, if it ran with bloomStart
\* = 0, is neither a bloom nor a far-red handler.
C12_NoBloomWhenZero ==
  (pc = "run" /\ bloomStart = 0) =>
    /\ BloomAlarms(alarms) = {}
    /\ SleepAlarms(alarms) = {}
    /\ lastFired.h \notin (BloomHandlers \cup SleepHandlers)

\* C14: after a boot at which (now - bloomStart) / one day is MAX_BLOOM_DAYS or
\* more, the bloom and far-red schedulers are not armed and the EEPROM holds a
\* bloomStart of 0.
C14_StaleBloomDropped ==
  ( /\ pc = "run"
    /\ lastFired.h = "setup"
    /\ cfg.bloomStart > 0
    /\ cfg.bloomStart <= now
    /\ (now - cfg.bloomStart) \div SECS_PER_DAY >= MAX_BLOOM_DAYS ) =>
    /\ BloomAlarms(alarms) = {}
    /\ SleepAlarms(alarms) = {}
    /\ eeprom = 0
    /\ bloomStart = 0

\* a command has just been processed
AfterCommand == pc = "run" /\ lastFired.h = "command" /\ lastCmd.at = now

C15_WitnessDropped ==
  /\ AfterCommand
  /\ lastCmd.text = Cmd("B", Digits(now - MAX_BLOOM_DAYS * SECS_PER_DAY))
  /\ lastCmd.value >= MIN_TIME
  /\ cfg.bloomStart > 0
  /\ bloomStart = 0
  /\ eeprom = 0

\* the header of the command held by a buffer, and what follows the header
CmdHeader(str) ==
  IF startsWith(Remove(str, ";"), "T") THEN "T"
  ELSE IF startsWith(Remove(str, ";"), "B") THEN "B"
  ELSE "?"

CmdPayload(str) == Remove(Remove(str, ";"), CmdHeader(str))

\* the step of loop() that processes the complete command of the buffer
CommandStep == serialStringComplete /\ ~serialStringComplete'

\* C16: a T or B command whose timestamp is not 0 and below MIN_TIME leaves the
\* clock, storedSettings.bloomStart and the bloomStart of the EEPROM as they were.
C16_RejectedUnchanged ==
  [][ ( /\ CommandStep
        /\ CmdHeader(serialInputString) \in { "T", "B" }
        /\ \E n \in { 5, MIN_TIME - 1 } : CmdPayload(serialInputString) = Digits(n) )
      => (now' = now /\ bloomStart' = bloomStart /\ eeprom' = eeprom) ]_vars

\* a B command with the timestamp MIN_TIME - 1 has been processed with a bloom start stored
C16_Witness ==
  /\ AfterCommand
  /\ lastCmd.text = Cmd("B", Digits(MIN_TIME - 1))
  /\ lastCmd.value = MIN_TIME - 1
  /\ bloomStart = cfg.bloomStart
  /\ eeprom = cfg.bloomStart
  /\ cfg.bloomStart > 0

\* the same for a T command
C16_WitnessT ==
  /\ AfterCommand
  /\ lastCmd.text = Cmd("T", Digits(MIN_TIME - 1))
  /\ lastCmd.value = MIN_TIME - 1
  /\ now = bootTime

\* C17: every rejected command (a T or a B command whose timestamp is not 0 and
\* below MIN_TIME) prints a diagnostic.
C17_RejectedDiagnosed ==
  ( /\ AfterCommand
    /\ lastCmd.kind \in { "T", "B" }
    /\ lastCmd.value # 0
    /\ lastCmd.value < MIN_TIME ) =>
    serialOut # << >>

\* C18: in every sketch of the repository setBloomStart(0) leaves 0 in
\* storedSettings.bloomStart and in the EEPROM, whatever they held.
C18_ZeroClears ==
  (pc = "done" /\ lastCmd.kind = "B" /\ lastCmd.value = 0) =>
    (bloomStart = 0 /\ eeprom = 0)

\* C19: a T command with the payload 0 or with no payload leaves the clock as
\* it is and prints the current timestamp (and stores nothing); a T command
\* with a payload >= MIN_TIME sets the clock to that payload.
C19_TimeQueryAndSet ==
  [][ (CommandStep /\ CmdHeader(serialInputString) = "T") =>
      /\ CmdPayload(serialInputString) \in { << >>, << "0" >> } =>
           /\ now' = now
           /\ serialOut' = << "Current timestamp" >>
           /\ bloomStart' = bloomStart /\ eeprom' = eeprom
      /\ \A n \in { MIN_TIME, now + 7200 } :
           CmdPayload(serialInputString) = Digits(n) => now' = n ]_vars

\* a T command without payload has been answered with the current timestamp
C19_Witness ==
  /\ AfterCommand
  /\ lastCmd.text = << "T", ";" >>
  /\ serialOut = << "Current timestamp" >>
  /\ now = bootTime

\* a T command has set the clock back to MIN_TIME
C19_WitnessSet ==
  /\ AfterCommand
  /\ lastCmd.text = Cmd("T", Digits(MIN_TIME))
  /\ now = MIN_TIME
  /\ now < bootTime

\* C20: a complete command (one ";", at its end) whose first character is
\* neither T nor B prints a diagnostic and changes nothing else: the clock,
\* bloomStart in memory and in the EEPROM, the state of the schedulers, the
\* pending timers and the outputs stay as they were, and the buffer is empty
\* afterwards.
C20_UnknownIgnored ==
  [][ ( /\ CommandStep
        /\ serialInputString[1] \notin { "T", "B" }
        /\ Len(Remove(serialInputString, ";")) = Len(serialInputString) - 1 )
      => /\ serialOut' = << "I don't understand what you're saying" >>
         /\ serialInputString' = << >>
         /\ Machine' = Machine
         /\ UNCHANGED << now, bloomStart, eeprom, pc, cfg >> ]_vars

\* the command XB0; has been answered with the diagnostic, a bloom start being stored
C20_Witness ==
  /\ AfterCommand
  /\ lastCmd.text = Cmd("X", << "B", "0" >>)
  /\ lastCmd.kind = "?"
  /\ serialOut = << "I don't understand what you're saying" >>
  /\ serialInputString = << >>
  /\ bloomStart > 0
  /\ Pending # {}

C22_InvalidReadingHolds ==
  ( /\ lastPoll.done
    /\ lastPoll.r1 = DEVICE_DISCONNECTED_C * TempScale
    /\ lastPoll.r2 = DEVICE_DISCONNECTED_C * TempScale ) =>
    (fanThrottleActive = lastPoll.before /\ throttle = lastPoll.before)

\* C23: after a boot with a clock that is not valid no timer is armed and no
\* light or pump output is on, whatever commands and polls follow.
C23_NoClockNothingArmed ==
  (pc = "run" /\ clockAtBoot # "timeSet") =>
    /\ \A i \in 1..dtNBR_ALARMS : alarms[i] = FreeAlarm
    /\ ~light1 /\ ~light2 /\ ~light3 /\ ~pump

\* the device booted without a time, a T command has set the clock since, the loop goes on
C23_Witness ==
  /\ pc = "run"
  /\ clockAtBoot = "timeNotSet"
  /\ timeStatus = "timeSet"
  /\ lastCmd.kind = "T"
  /\ now = S0 + 7200
  /\ lastPoll.done
  /\ \A i \in 1..dtNBR_ALARMS : alarms[i] = FreeAlarm

\* C24: after a boot without a valid clock, and for as long as no time has been
\* set, what the last pass of the control loop printed includes the message
\* about the clock.
C24_FaultReportedEveryPass ==
  ( /\ pc = "run"
    /\ clockAtBoot = "timeNotSet"
    /\ timeStatus # "timeSet"
    /\ lastPoll.done ) =>
    \E i \in 1..Len(serialOut) : serialOut[i] = "Fix the RTC!"

\* a growth scheme that does not sum to a day, or a period that is not positive
ConfigError(c) ==
  \/ SchemePrefix(c.growthLightScheme, Len(c.growthLightScheme)) # 24 * 60
  \/ \E k \in 1..Len(c.growthLightScheme) : c.growthLightScheme[k] <= 0
  \/ \E k \in 1..2 : c.bloomLightScheme[k] <= 0 \/ c.irrigationScheme[k] <= 0

\* C25: with a configuration error setup arms no timer.
C25_ConfigErrorBlocks ==
  (pc = "run" /\ ConfigError(cfg)) =>
    \A i \in 1..dtNBR_ALARMS : alarms[i] = FreeAlarm

IrrigationHandlers == { "turnOnIrrigation", "turnOffIrrigation" }
IrrigationAlarms(al) == { i \in 1..Len(al) : al[i].h \in IrrigationHandlers }

\* C26: at every instant after setup, whatever timers have fired and whatever
\* commands have been processed, each of the four schedulers (growth, bloom,
\* far-red, irrigation) has at most one pending timer.
C26_OneTimerEach ==
  pc = "run" =>
    /\ Cardinality(GrowthAlarms) <= 1
    /\ Cardinality(BloomAlarms(alarms)) <= 1
    /\ Cardinality(SleepAlarms(alarms)) <= 1
    /\ Cardinality(IrrigationAlarms(alarms)) <= 1

\* a bloom handler has re-armed its scheduler after a command, all four schedulers armed
C26_Witness ==
  /\ pc = "run"
  /\ cmds > 0
  /\ lastFired.h \in BloomHandlers
  /\ Cardinality(GrowthAlarms) = 1
  /\ Cardinality(BloomAlarms(alarms)) = 1
  /\ Cardinality(SleepAlarms(alarms)) = 1
  /\ Cardinality(IrrigationAlarms(alarms)) = 1

\* C27: after a boot with a valid clock the pump is ON at the end of setup, and
\* from then on there is always exactly one irrigation timer: while the pump is
\* ON it is turnOffIrrigation, set irrigationScheme[0] seconds after the pump was
\* switched ON, while the pump is OFF it is turnOnIrrigation, set
\* irrigationScheme[1] seconds after the pump was switched OFF, and served at
\* that second unless the control loop stalled - with or without a bloom start,
\* whatever the other schedulers do.
C27_IrrigationAlternates ==
  pc = "run" =>
    /\ lastFired.h = "setup" => pump
    /\ \E i \in IrrigationAlarms(alarms) :
         /\ IrrigationAlarms(alarms) = { i }
         /\ alarms[i].h = (IF pump THEN "turnOffIrrigation" ELSE "turnOnIrrigation")
         /\ alarms[i].trigger - alarms[i].armedAt
              = (IF pump THEN cfg.irrigationScheme[1] ELSE cfg.irrigationScheme[2])
    /\ lastFired.h \in IrrigationHandlers => pump = (lastFired.h = "turnOnIrrigation")
    /\ (lastFired.h \in IrrigationHandlers /\ stalls = 0) => lastFired.late = 0

\* the pump has been switched ON again, on time, after an OFF phase, in bloom mode
C27_Witness ==
  /\ pc = "run"
  /\ bloomStart > 0
  /\ lastFired = [ h |-> "turnOnIrrigation", late |-> 0 ]
  /\ pump
  /\ now > bootTime
  /\ \E i \in IrrigationAlarms(alarms) : alarms[i].armedAt = now

\* C28: with fresh runtime state and t = bloomStart, getBloomLightStatus gives
\* the ON phase (index 0), bloomLightScheme[0] * 60 seconds to the next switch
\* (46800 for the scheme 780/690) and a bloomDayCounter of 0: as a computation
\* on its own, and in the handler that runs at t = bloomStart.
C28_AtBloomStart ==
  /\ cfg.bloomStart > 0 =>
       getBloomLightStatus(cfg, cfg.bloomStart, 0, 0, cfg.bloomStart)
         = [ status |-> 0, counter |-> 0,
             secs |-> cfg.bloomLightScheme[1] * SECS_PER_MIN ]
  /\ (cfg.bloomStart > 0 /\ cfg.bloomLightScheme = << 780, 690 >>) =>
       getBloomLightStatus(cfg, cfg.bloomStart, 0, 0, cfg.bloomStart).secs = 46800
  /\ (pc = "run" /\ bloomStart > 0 /\ bloomCallAt = bloomStart) =>
       /\ bloomLightStatus = 0
       /\ bloomDayCounter = 0
       /\ secondsToNextBloomLightSwitch = cfg.bloomLightScheme[1] * SECS_PER_MIN

\* a bloom handler has computed at t = bloomStart (after a boot before the bloom start)
C28_Witness ==
  /\ pc = "run"
  /\ bloomStart > 0
  /\ bootTime < bloomStart
  /\ now = bloomStart
  /\ bloomCallAt = bloomStart
  /\ lastFired.h \in BloomHandlers
  /\ cfg.bloomLightScheme = << 780, 690 >>
  /\ secondsToNextBloomLightSwitch = 46800

\* C29: after setup and after every growth handler - on time or late - the
\* growth light is ON exactly when the currentGrowthLightPeriod just computed
\* is even.
C29_GrowthOutputParity ==
  ( /\ pc = "run"
    /\ growthCallAt = now
    /\ lastFired.h \in (GrowthHandlers \cup { "setup" }) ) =>
    (light1 <=> (currentGrowthLightPeriod % 2 = 0))

\* C30: while bloom mode is active (0 < bloomStart <= now, less than
\* MAX_BLOOM_DAYS days ago) and the control loop has not stalled, no step makes
\* bloomDayCounter smaller.
C30_CounterMonotonic ==
  [][ ( /\ pc = "run"
        /\ stalls = 0
        /\ bloomStart > 0
        /\ bloomStart <= now
        /\ (now - bloomStart) \div SECS_PER_DAY < MAX_BLOOM_DAYS )
      => bloomDayCounter' >= bloomDayCounter ]_vars

\* C31: once bloomDayCounter >= startOfDaytimeReduction, a bloom handler that
\* runs on time at an edge arms the next edge so that the lit interval lasts
\* bloomLightScheme[0] - reductionOfDaytimeInMinutes minutes and the dark
\* interval bloomLightScheme[1] + prolongNighttimeInMinutes minutes; a
\* computation with fresh globals at the first ON edge of the first reduced day
\* gives the shortened lit interval too.
C31_ReducedDayLengths ==
  /\ ( /\ pc = "run"
       /\ bloomStart > 0
       /\ bloomStart <= now
       /\ bloomCallAt = now
       /\ lastFired.h \in BloomHandlers
       /\ lastFired.late = 0
       /\ bloomOnTime
       /\ bloomDayCounter >= cfg.startOfDaytimeReduction ) =>
       secondsToNextBloomLightSwitch
         = IF lastFired.h = "turnOnBloomLight"
           THEN (cfg.bloomLightScheme[1] - cfg.reductionOfDaytimeInMinutes) * SECS_PER_MIN
           ELSE (cfg.bloomLightScheme[2] + cfg.prolongNighttimeInMinutes) * SECS_PER_MIN
  /\ (cfg.bloomStart > 0 /\ cfg.startOfDaytimeReduction = 1) =>
       getBloomLightStatus(cfg, cfg.bloomStart, 0, 0,
                           cfg.bloomStart + (cfg.bloomLightScheme[1] + cfg.bloomLightScheme[2])
                                              * SECS_PER_MIN).secs
         = (cfg.bloomLightScheme[1] - cfg.reductionOfDaytimeInMinutes) * SECS_PER_MIN

\* C32: for bloomStart <= now and strictly positive bloom periods, whatever the
\* drift values and whatever bloomLightStatus and bloomDayCounter held on entry,
\* the loop of getBloomLightStatus has ended when the function returns: the sum
\* is past now(), the seconds to the next switch are positive.
C32_BloomLoopEnds ==
  ( /\ pc = "done"
    /\ lastFired.h = "getBloomLightStatus"
    /\ bloomStart <= now
    /\ cfg.bloomLightScheme[1] > 0
    /\ cfg.bloomLightScheme[2] > 0 ) =>
    secondsToNextBloomLightSwitch > 0

\* C33: for a scheme that sums to 1440 minutes the loop of getGrowthLightPeriod
\* (PlantTimer.ino) makes at least one pass and at most 2 * GROWTH_LIGHT_PERIODS
\* passes and has ended then: the sum is past now().
C33_GrowthLoopBounded ==
  ( /\ pc = "done"
    /\ lastFired.h = "getGrowthLightPeriod"
    /\ sketch = "PlantTimer.ino" ) =>
    /\ growthWalk.passes >= 1
    /\ growthWalk.passes <= 2 * Len(cfg.growthLightScheme)
    /\ secondsToNextGrowthLightSwitch > 0

\* the bound is met: a call at 23:59:59 walks yesterday's cycle and all of today's
C33_Witness ==
  /\ pc = "done"
  /\ lastFired.h = "getGrowthLightPeriod"
  /\ sketch = "PlantTimer.ino"
  /\ cfg.growthLightScheme = << 100, 100, 100, 1140 >>
  /\ TimeOfDay(now) = SECS_PER_DAY - 1
  /\ growthWalk.passes = 2 * Len(cfg.growthLightScheme)

\* C34: in every sketch the index used to read growthLightScheme and the
\* resulting currentGrowthLightPeriod stay within 0 .. GROWTH_LIGHT_PERIODS - 1.
C34_IndexInBounds ==
  (pc = "done" /\ lastFired.h = "getGrowthLightPeriod") =>
    /\ growthWalk.top <= Len(cfg.growthLightScheme) - 1
    /\ currentGrowthLightPeriod <= Len(cfg.growthLightScheme) - 1

\* the handler of the opposite state of the same scheduler
Opposite(h) ==
  CASE h = "turnOnGrowthLight"  -> "turnOffGrowthLight"
    [] h = "turnOffGrowthLight" -> "turnOnGrowthLight"
    [] h = "turnOnBloomLight"   -> "turnOffBloomLight"
    [] h = "turnOffBloomLight"  -> "turnOnBloomLight"
    [] h = "turnOnSleepLight"   -> "turnOffSleepLight"
    [] h = "turnOffSleepLight"  -> "turnOnSleepLight"
    [] h = "turnOnIrrigation"   -> "turnOffIrrigation"
    [] h = "turnOffIrrigation"  -> "turnOnIrrigation"

\* C35: the handler that ran last has armed exactly one timer, for the opposite
\* handler of its scheduler, and every timer armed by a handler (after boot) was
\* armed with a strictly positive delay.
C35_HandlersRearm ==
  pc = "run" =>
    /\ lastFired.h \in OneShotHandlers =>
         Cardinality({ i \in Pending : alarms[i].h \in { lastFired.h, Opposite(lastFired.h) } }) = 1
           /\ \E i \in Pending : alarms[i].h = Opposite(lastFired.h)
    /\ \A i \in Pending :
         alarms[i].armedAt > bootTime => alarms[i].trigger > alarms[i].armedAt

\* C36: a call of getSleepLightStatus leaves secondsToNextBloomLightSwitch,
\* bloomLightStatus, bloomDayCounter, bloomStart, the other globals, the
\* outputs and the timers as they were, and the secondsToNextSleepLightSwitch it
\* writes is the same on every clock: it is determined by the two bloom values
\* and the configuration.
C36_SleepStatusFrame ==
  [][ pc = "sleep" =>
        /\ secondsToNextBloomLightSwitch' = secondsToNextBloomLightSwitch
        /\ bloomLightStatus' = bloomLightStatus
        /\ bloomDayCounter' = bloomDayCounter
        /\ bloomStart' = bloomStart
        /\ eeprom' = eeprom
        /\ currentGrowthLightPeriod' = currentGrowthLightPeriod
        /\ secondsToNextGrowthLightSwitch' = secondsToNextGrowthLightSwitch
        /\ << light1, light2, light3, pump, alarms >>' = << light1, light2, light3, pump, alarms >>
        /\ LET r == getSleepLightStatus(cfg, secondsToNextBloomLightSwitch, bloomLightStatus)
           IN  secondsToNextSleepLightSwitch' = r.secs /\ sleepRet' = r.ret ]_vars

\* the function has been called 601 s before a bloom OFF edge and has written its result
C36_Witness ==
  /\ pc = "done"
  /\ lastFired.h = "getSleepLightStatus"
  /\ sleepCallAt = now
  /\ sleepIn = << 601, 0 >>
  /\ secondsToNextBloomLightSwitch = 601
  /\ bloomLightStatus = 0
  /\ bloomDayCounter = 12
  /\ secondsToNextSleepLightSwitch = 601 + cfg.sleepLightScheme[2] * SECS_PER_MIN

\* C37: while bloom mode is inactive (bloomStart = 0 or now < bloomStart) the
\* bloom light output equals the growth light output in every state after
\* setup, also after a B command has changed bloomStart.
C37_BloomFollowsGrowth ==
  (pc = "run" /\ (bloomStart = 0 \/ now < bloomStart)) => (light2 <=> light1)

\* C38: the step that processes a command - T, B or unknown - leaves the timers,
\* the relay outputs and the runtime state of the schedulers as they were; a B
\* command leaves the clock, a T command leaves bloomStart (in memory and in the
\* EEPROM), an unknown command leaves both.
C38_CommandFrame ==
  [][ CommandStep =>
        /\ alarms' = alarms
        /\ << light1, light2, light3, pump, throttle >>'
             = << light1, light2, light3, pump, throttle >>
        /\ << currentGrowthLightPeriod, bloomLightStatus, bloomDayCounter >>'
             = << currentGrowthLightPeriod, bloomLightStatus, bloomDayCounter >>
        /\ << secondsToNextGrowthLightSwitch, secondsToNextBloomLightSwitch,
              secondsToNextSleepLightSwitch >>'
             = << secondsToNextGrowthLightSwitch, secondsToNextBloomLightSwitch,
                  secondsToNextSleepLightSwitch >>
        /\ CmdHeader(serialInputString) # "T" => now' = now
        /\ CmdHeader(serialInputString) # "B" => (bloomStart' = bloomStart /\ eeprom' = eeprom)
    ]_vars

\* a B command has moved bloomStart while all four schedulers had a timer pending
C38_Witness ==
  /\ AfterCommand
  /\ lastCmd.kind = "B"
  /\ bloomStart = now - 3600
  /\ bloomStart # cfg.bloomStart
  /\ eeprom = bloomStart
  /\ Cardinality(Pending) = 4
  /\ bloomCallAt = bootTime

\* a T command has moved the clock and left the timers where they were
C38_WitnessT ==
  /\ AfterCommand
  /\ lastCmd.kind = "T"
  /\ now = bootTime + 7200
  /\ bloomStart = cfg.bloomStart
  /\ Cardinality(Pending) = 4
  /\ \A i \in Pending : alarms[i].armedAt = bootTime

\* the place of the first ';' of a text that holds one
FirstEnd(str) == CHOOSE i \in 1..Len(str) :
                   str[i] = ";" /\ \A j \in 1..(i - 1) : str[j] # ";"

\* the first ';'-terminated command of the buffer and what was received after it
FirstCommand(str) == SubSeq(str, 1, FirstEnd(str))
AfterFirstCommand(str) == SubSeq(str, FirstEnd(str) + 1, Len(str))

\* C39: a step that processes a command dispatches the first ';'-terminated
\* command of the buffer, with the header and the payload of that command, and
\* keeps what was received after it for the next steps - so that each command
\* received is dispatched once, also when several were read between two passes.
C39_EachCommandDispatchedOnce ==
  [][ CommandStep =>
        /\ lastCmd'.kind = CmdHeader(FirstCommand(serialInputString))
        /\ lastCmd'.kind # "?" =>
             lastCmd'.value = toInt(CmdPayload(FirstCommand(serialInputString)))
        /\ serialInputString' = AfterFirstCommand(serialInputString)
        /\ serialStringComplete' = (\E i \in 1..Len(serialInputString') :
                                      serialInputString'[i] = ";")
    ]_vars

\* C40: when the device has booted without a valid clock and the clock has been
\* set since (a T command was accepted), a timer of the growth scheduler and a
\* timer of the irrigation scheduler are pending at some later instant.
C40_ArmedOnceClockSet ==
  (pc = "run" /\ clockAtBoot = "timeNotSet" /\ timeStatus = "timeSet")
    ~> ( /\ \E i \in 1..dtNBR_ALARMS : alarms[i].h \in GrowthHandlers
         /\ \E i \in 1..dtNBR_ALARMS : alarms[i].h \in IrrigationHandlers )

====
